---- MODULE Spec2Model ----
(***************************************************************************)
(* Model of remote-fs-diff.py: the ignore filter (apply_ignore), the tree  *)
(* walk (record_file_stats) and the diff engine (diff_file_list).          *)
(*                                                                         *)
(* Strings are TLA+ strings.  A Python dict is a function whose domain is  *)
(* the set of its keys (insertion order is not modelled); a Python list is *)
(* a sequence; a namedtuple is a record with the namedtuple's field names. *)
(***************************************************************************)
EXTENDS Integers, Sequences, FiniteSets, TLC

VARIABLES
    filetrees_a, filetrees_b,   \* arguments of diff_file_list
    pc,                         \* position inside diff_file_list
    idx,                        \* index of the pair zip() is at
    i, j,                       \* positions of the two directory loops
    only_in_a, only_in_b, changed, seen_dirs,
    filediffs,                  \* the list diff_file_list builds and returns
    files, root,                \* arguments of apply_ignore
    ignore_files, ignore_paths,
    entries,                    \* the list apply_ignore was called with
    ipc,                        \* "call", "returned" or "raised"
    fs,                         \* files that exist on disk (full paths)
    rootdirs, ri,               \* argument of record_file_stats, loop index
    stack,                      \* directories os.walk has still to yield
    parentdir, wfiles, wdirs,   \* the triple os.walk yielded last
    k,                          \* position of the comprehension of line 93
    specs, dircontents, result, \* locals of record_file_stats
    wpc                         \* position inside record_file_stats

diffvars == <<filetrees_a, filetrees_b, pc, idx, i, j, only_in_a, only_in_b,
              changed, seen_dirs, filediffs>>
ignvars == <<files, root, ignore_files, ignore_paths, entries, ipc>>
walkvars == <<fs, rootdirs, ri, stack, parentdir, wfiles, wdirs, k, specs, dircontents,
              result, wpc>>
vars == <<diffvars, ignvars, walkvars>>

----------------------------------------------------------------------------
(* Bounds of the model *)

MaxMtime == 2     \* mtimes of files are 1..MaxMtime
MaxSize == 2      \* sizes of files are 1..MaxSize
MaxTrees == 2     \* longest list of trees given to diff_file_list

----------------------------------------------------------------------------
(* Strings, paths, dicts *)

Min(a, b) == IF a <= b THEN a ELSE b

MaxOf(S) == CHOOSE n \in S : \A m \in S : m <= n

MinOf(S) == CHOOSE n \in S : \A m \in S : n <= m

\* str.startswith
StartsWith(s, prefix) ==
    /\ Len(prefix) <= Len(s)
    /\ SubSeq(s, 1, Len(prefix)) = prefix

\* str.endswith
EndsWith(s, suffix) ==
    /\ Len(suffix) <= Len(s)
    /\ SubSeq(s, Len(s) - Len(suffix) + 1, Len(s)) = suffix

\* os.path.join of two components (posixpath)
Join(a, b) ==
    IF StartsWith(b, "/") THEN b
    ELSE IF a = "" \/ EndsWith(a, "/") THEN a \o b
    ELSE a \o "/" \o b

EmptyDict == << >>

\* d[key] = value
Put(d, key, value) == (key :> value) @@ d

\* d.update(e)
Update(d, e) == e @@ d

----------------------------------------------------------------------------
(* Data model: the four namedtuples of lines 73-76 *)

FileSpec(name, mtime, size) == [name |-> name, mtime |-> mtime, size |-> size]

DirContent(path, filespecs) == [path |-> path, filespecs |-> filespecs]

FileTree(rootdir, dirs) == [rootdir |-> rootdir, dircontents |-> dirs]

FileDiff(rootdir_a, rootdir_b, oa, ob, ch) ==
    [rootdir_a |-> rootdir_a, rootdir_b |-> rootdir_b,
     only_in_a |-> oa, only_in_b |-> ob, changed |-> ch]

----------------------------------------------------------------------------
(* diff_file_list, lines 147-222 *)

\* next((True for d in only if path.startswith(d)), None), lines 170 and 213:
\* the scan goes over every key of the dict, file keys included
ParentExcluded(only, path) == \E key \in DOMAIN only : StartsWith(path, key)

\* index of the first DirContent of dirs whose path is path, 0 for None
FindDir(dirs, path) ==
    LET hits == {n \in 1..Len(dirs) : dirs[n].path = path}
    IN  IF hits = {} THEN 0 ELSE MinOf(hits)

\* index of the first FileSpec of filespecs named name, 0 for None
FindFile(filespecs, name) ==
    LET hits == {n \in 1..Len(filespecs) : filespecs[n].name = name}
    IN  IF hits = {} THEN 0 ELSE MinOf(hits)

\* a change predicate that looks at the mtime too
SizeOrMtimeDiffers(file_a, file_b) ==
    file_a.size # file_b.size \/ file_a.mtime # file_b.mtime

\* the change predicate of line 199
SizeDiffers(file_a, file_b) == file_a.size # file_b.size

\* indices of the files of a that have no file of the same name in b
IdxOnlyInA(files_a, files_b) ==
    {n \in 1..Len(files_a) :
        /\ files_a[n].name # "."
        /\ FindFile(files_b, files_a[n].name) = 0}

\* indices of the files of a that have a file of another size in b
IdxChanged(files_a, files_b) ==
    {n \in 1..Len(files_a) :
        /\ files_a[n].name # "."
        /\ FindFile(files_b, files_a[n].name) # 0
        /\ SizeDiffers(files_a[n],
                       files_b[FindFile(files_b, files_a[n].name)])}

\* the files of b, without the test against seen_files
IdxAllOfB(files_a, files_b) ==
    {n \in 1..Len(files_b) : files_b[n].name # "."}

\* indices of the files of b whose name was not seen in a, lines 203-205
IdxOnlyInB(files_a, files_b) ==
    {n \in 1..Len(files_b) :
        /\ files_b[n].name # "."
        /\ \A m \in 1..Len(files_a) :
              files_a[m].name = "." \/ files_a[m].name # files_b[n].name}

\* the dict built from the entries idxs of filespecs, keyed by
\* join(path, name); a later entry overwrites an earlier one of the same key
FilesDict(path, filespecs, idxs) ==
    [key \in {Join(path, filespecs[n].name) : n \in idxs} |->
        filespecs[MaxOf({n \in idxs : Join(path, filespecs[n].name) = key})]]

\* changed_files of lines 186-200
ChangedDict(path, files_a, files_b) ==
    LET idxs == IdxChanged(files_a, files_b)
    IN  [key \in {Join(path, files_a[n].name) : n \in idxs} |->
            LET n == MaxOf({m \in idxs : Join(path, files_a[m].name) = key})
            IN  <<files_a[n], files_b[FindFile(files_b, files_a[n].name)]>>]

\* The body of the loop of lines 166-208 for one DirContent of tree a.
\* raised: next() of line 178 found no "." entry and raised StopIteration.
LoopBodyA(oa, ob, ch, seen, dir_a, dirs_b) ==
    LET path == dir_a.path
        files_a == dir_a.filespecs
        nb == FindDir(dirs_b, path)
        self == FindFile(files_a, ".")
        st == [only_in_a |-> oa, only_in_b |-> ob, changed |-> ch,
               seen_dirs |-> seen \cup {path}, raised |-> FALSE]
    IN  IF ParentExcluded(oa, path) THEN st
        ELSE IF nb = 0
        THEN IF self = 0 THEN [st EXCEPT !.raised = TRUE]
             ELSE [st EXCEPT !.only_in_a = Put(oa, path \o "/", files_a[self])]
        ELSE LET files_b == dirs_b[nb].filespecs
             IN  [st EXCEPT
                    !.only_in_a = Update(oa,
                        FilesDict(path, files_a, IdxOnlyInA(files_a, files_b))),
                    !.only_in_b = Update(ob,
                        FilesDict(path, files_b, IdxOnlyInB(files_a, files_b))),
                    !.changed = Update(ch, ChangedDict(path, files_a, files_b))]

\* The body of the loop of lines 212-218 for one DirContent of tree b.
LoopBodyB(ob, seen, dir_b) ==
    LET path == dir_b.path
        self == FindFile(dir_b.filespecs, ".")
        st == [only_in_b |-> ob, raised |-> FALSE]
    IN  IF ParentExcluded(ob, path) THEN st
        ELSE IF path \in seen THEN st
        ELSE IF self = 0 THEN [st EXCEPT !.raised = TRUE]
        ELSE [st EXCEPT
                !.only_in_b = Put(ob, path \o "/", dir_b.filespecs[self])]

\* zip(filetrees_a, filetrees_b) of line 159 yields this many pairs
ZipLen(la, lb) == Min(Len(la), Len(lb))

RECURSIVE RunLoopA(_, _, _, _)
\* the loop of lines 166-208 from position n on, started in state st
RunLoopA(st, dirs_a, dirs_b, n) ==
    IF st.raised \/ n > Len(dirs_a) THEN st
    ELSE RunLoopA(LoopBodyA(st.only_in_a, st.only_in_b, st.changed,
                            st.seen_dirs, dirs_a[n], dirs_b),
                  dirs_a, dirs_b, n + 1)

RECURSIVE RunLoopB(_, _, _, _)
\* the loop of lines 212-218 from position n on
RunLoopB(st, seen, dirs_b, n) ==
    IF st.raised \/ n > Len(dirs_b) THEN st
    ELSE RunLoopB(LoopBodyB(st.only_in_b, seen, dirs_b[n]), seen, dirs_b, n + 1)

\* one iteration of the loop of line 159: lines 160-220 for one pair of trees
DiffPair(tree_a, tree_b) ==
    LET sa == RunLoopA([only_in_a |-> EmptyDict, only_in_b |-> EmptyDict,
                        changed |-> EmptyDict, seen_dirs |-> {},
                        raised |-> FALSE],
                       tree_a.dircontents, tree_b.dircontents, 1)
        sb == RunLoopB([only_in_b |-> sa.only_in_b, raised |-> FALSE],
                       sa.seen_dirs, tree_b.dircontents, 1)
    IN  [raised |-> sa.raised \/ sb.raised,
         diff |-> FileDiff(tree_a.rootdir, tree_b.rootdir,
                           sa.only_in_a, sb.only_in_b, sa.changed)]

\* diff_file_list as a function of its arguments: raised, or the list returned
DiffFileList(la, lb) ==
    LET pairs == [n \in 1..ZipLen(la, lb) |-> DiffPair(la[n], lb[n])]
    IN  [raised |-> \E n \in 1..ZipLen(la, lb) : pairs[n].raised,
         filediffs |-> [n \in 1..ZipLen(la, lb) |-> pairs[n].diff]]

(* diff_file_list as a state machine *)

\* line 159 yields the next pair; lines 160-163 reset the accumulators
NextPair ==
    /\ pc = "zip"
    /\ idx < ZipLen(filetrees_a, filetrees_b)
    /\ idx' = idx + 1
    /\ only_in_a' = EmptyDict
    /\ only_in_b' = EmptyDict
    /\ changed' = EmptyDict
    /\ seen_dirs' = {}
    /\ i' = 1
    /\ j' = 1
    /\ pc' = "pair"
    /\ UNCHANGED <<ignvars, walkvars>>
    /\ UNCHANGED <<filetrees_a, filetrees_b, filediffs>>

\* one iteration of the loop of lines 166-208
LoopA ==
    /\ pc = "pair"
    /\ i <= Len(filetrees_a[idx].dircontents)
    /\ LET st == LoopBodyA(only_in_a, only_in_b, changed, seen_dirs,
                           filetrees_a[idx].dircontents[i],
                           filetrees_b[idx].dircontents)
       IN  /\ only_in_a' = st.only_in_a
           /\ only_in_b' = st.only_in_b
           /\ changed' = st.changed
           /\ seen_dirs' = st.seen_dirs
           /\ pc' = IF st.raised THEN "raised" ELSE "pair"
    /\ i' = i + 1
    /\ UNCHANGED <<ignvars, walkvars>>
    /\ UNCHANGED <<filetrees_a, filetrees_b, idx, j, filediffs>>

\* one iteration of the loop of lines 212-218
LoopB ==
    /\ pc = "pair"
    /\ i > Len(filetrees_a[idx].dircontents)
    /\ j <= Len(filetrees_b[idx].dircontents)
    /\ LET st == LoopBodyB(only_in_b, seen_dirs,
                           filetrees_b[idx].dircontents[j])
       IN  /\ only_in_b' = st.only_in_b
           /\ pc' = IF st.raised THEN "raised" ELSE "pair"
    /\ j' = j + 1
    /\ UNCHANGED <<ignvars, walkvars>>
    /\ UNCHANGED <<filetrees_a, filetrees_b, idx, i, only_in_a, changed,
                   seen_dirs, filediffs>>

\* line 220
AppendDiff ==
    /\ pc = "pair"
    /\ i > Len(filetrees_a[idx].dircontents)
    /\ j > Len(filetrees_b[idx].dircontents)
    /\ filediffs' = Append(filediffs,
                           FileDiff(filetrees_a[idx].rootdir,
                                    filetrees_b[idx].rootdir,
                                    only_in_a, only_in_b, changed))
    /\ pc' = "zip"
    /\ UNCHANGED <<ignvars, walkvars>>
    /\ UNCHANGED <<filetrees_a, filetrees_b, idx, i, j, only_in_a, only_in_b,
                   changed, seen_dirs>>

\* zip() is exhausted: line 222
Return ==
    /\ pc = "zip"
    /\ idx >= ZipLen(filetrees_a, filetrees_b)
    /\ pc' = "returned"
    /\ UNCHANGED <<ignvars, walkvars>>
    /\ UNCHANGED <<filetrees_a, filetrees_b, idx, i, j, only_in_a, only_in_b,
                   changed, seen_dirs, filediffs>>

----------------------------------------------------------------------------
(* The trees given to diff_file_list *)

\* (mtime, size) of a file
Stats == (1..MaxMtime) \X (1..MaxSize)

\* the "." entry record_file_stats appends to every directory, line 94
SelfSpec == FileSpec(".", 1, 0)

\* a file that may be there or not
OptFile(name, stats) ==
    {<< >>} \cup {<<FileSpec(name, st[1], st[2])>> : st \in stats}

\* the directories of a tree, in the order os.walk yields them
Chain == <<".", "s", "s/ab">>

\* the file lists a directory can have
Listings(path) ==
    CASE path = "." -> OptFile("a", {<<1, 1>>})
      [] path = "s" -> {x \o y : x \in OptFile("a", Stats),
                                 y \in OptFile("b", {<<1, 1>>})}
      [] path = "s/ab" -> OptFile("b", Stats)

DirContents(path) ==
    {DirContent(path, l \o <<SelfSpec>>) : l \in Listings(path)}

AllDirContents == UNION {DirContents(Chain[n]) : n \in 1..Len(Chain)}

\* what record_file_stats can produce for one root: a root that does not
\* exist gives no directory at all, every other tree starts with "."
Trees ==
    UNION {{FileTree("/r", dcs) :
              dcs \in {f \in [1..n -> AllDirContents] :
                         \A m \in 1..n : f[m].path = Chain[m]}} :
           n \in 0..Len(Chain)}

\* the trees in which every file has mtime 1 and size 1 and none is missing
SmallTrees ==
    {t \in Trees :
        \A n \in 1..Len(t.dircontents) :
            LET specs_n == t.dircontents[n].filespecs
            IN  /\ \A l \in Listings(Chain[n]) : Len(l) < Len(specs_n)
                /\ \A m \in 1..Len(specs_n) :
                      specs_n[m].name = "."
                      \/ (specs_n[m].mtime = 1 /\ specs_n[m].size = 1)}

\* lists of n trees of S
ListsOf(S, n) == [1..n -> S]

\* tree with the "." entry of its n-th directory missing
DropSelf(t, n) ==
    [t EXCEPT !.dircontents[n].filespecs =
        SelectSeq(@, LAMBDA spec : spec.name # ".")]

\* the trees of one, two and three directories, and the last of them with
\* the "." entry of one directory missing
ShapeTrees ==
    LET full == {t \in SmallTrees : Len(t.dircontents) = Len(Chain)}
    IN  {t \in SmallTrees : Len(t.dircontents) > 0}
        \cup {DropSelf(t, n) : t \in full, n \in 2..Len(Chain)}

DiffStart ==
    /\ pc = "zip"
    /\ idx = 0
    /\ i = 1
    /\ j = 1
    /\ only_in_a = EmptyDict
    /\ only_in_b = EmptyDict
    /\ changed = EmptyDict
    /\ seen_dirs = {}
    /\ filediffs = << >>

DiffIdle ==
    /\ filetrees_a = << >>
    /\ filetrees_b = << >>
    /\ pc = "idle"
    /\ idx = 0
    /\ i = 1
    /\ j = 1
    /\ only_in_a = EmptyDict
    /\ only_in_b = EmptyDict
    /\ changed = EmptyDict
    /\ seen_dirs = {}
    /\ filediffs = << >>

----------------------------------------------------------------------------
(* apply_ignore, lines 56-70 *)

MaxFiles == 2      \* longest entry list given to apply_ignore
MaxPatterns == 2   \* longest pattern list given to apply_ignore

RECURSIVE FnMatch(_, _)
\* fnmatch.fnmatch(name, pat) for patterns of literal characters, "*" and "?"
\* ("*" matches any run of characters, "/" included; "?" matches one)
FnMatch(name, pat) ==
    IF pat = "" THEN name = ""
    ELSE LET c == SubSeq(pat, 1, 1)
             rest == SubSeq(pat, 2, Len(pat))
         IN  IF c = "*"
             THEN \E n \in 0..Len(name) :
                     FnMatch(SubSeq(name, n + 1, Len(name)), rest)
             ELSE /\ name # ""
                  /\ c = "?" \/ c = SubSeq(name, 1, 1)
                  /\ FnMatch(SubSeq(name, 2, Len(name)), rest)

\* the loop of lines 61-65 found a pattern that matches the bare name
NameIgnored(f, ign_files) ==
    \E n \in 1..Len(ign_files) : FnMatch(f, ign_files[n])

\* the patterns of ignore_paths for which line 69 holds
PathHits(f, dir, ign_paths) ==
    {n \in 1..Len(ign_paths) : FnMatch(Join(dir, f), ign_paths[n])}

\* how often files.remove(f) is called for the entry f: once at line 63, or
\* at line 70 once for every path pattern that matches (that loop has no
\* break)
RemoveCalls(f, dir, ign_files, ign_paths) ==
    IF NameIgnored(f, ign_files) THEN 1
    ELSE Cardinality(PathHits(f, dir, ign_paths))

\* list.remove(f) on a list that holds f: the first occurrence goes
ListRemove(list, f) ==
    LET n == MinOf({m \in 1..Len(list) : list[m] = f})
    IN  SubSeq(list, 1, n - 1) \o SubSeq(list, n + 1, Len(list))

RECURSIVE RemoveTimes(_, _, _)
\* times calls of list.remove(f); the call on a list without f raises
\* ValueError
RemoveTimes(list, f, times) ==
    IF times = 0 THEN [files |-> list, raised |-> FALSE]
    ELSE IF \A m \in 1..Len(list) : list[m] # f
    THEN [files |-> list, raised |-> TRUE]
    ELSE RemoveTimes(ListRemove(list, f), f, times - 1)

RECURSIVE IgnoreFrom(_, _, _, _, _, _)
\* the loop of line 59 over the copy files[:], from position n on
IgnoreFrom(copy, n, list, dir, ign_files, ign_paths) ==
    IF n > Len(copy) THEN [files |-> list, raised |-> FALSE]
    ELSE LET r == RemoveTimes(list, copy[n],
                              RemoveCalls(copy[n], dir, ign_files, ign_paths))
         IN  IF r.raised THEN r
             ELSE IgnoreFrom(copy, n + 1, r.files, dir, ign_files, ign_paths)

\* apply_ignore: the list as it is afterwards, and whether the call raised
apply_ignore(list, dir, ign_files, ign_paths) ==
    IgnoreFrom(list, 1, list, dir, ign_files, ign_paths)

\* a call of apply_ignore
ApplyIgnore ==
    /\ ipc = "call"
    /\ LET r == apply_ignore(files, root, ignore_files, ignore_paths)
       IN  /\ files' = r.files
           /\ ipc' = IF r.raised THEN "raised" ELSE "returned"
    /\ UNCHANGED <<diffvars, walkvars>>
    /\ UNCHANGED <<root, ignore_files, ignore_paths, entries>>

\* entry names, name patterns and path patterns the calls are made with
EntryNames == {"a", "b", "ab"}

NamePatterns == {"a", "a*", "?b"}

PathPatterns == {"/r/a", "/r/*b", "*/?"}

\* the sequences over S of at most n elements
SeqsUpTo(S, n) == UNION {[1..m -> S] : m \in 0..n}

NoDuplicates(list) ==
    \A m, n \in 1..Len(list) : m # n => list[m] # list[n]

IgnoreStart ==
    /\ files \in {l \in SeqsUpTo(EntryNames, MaxFiles) : NoDuplicates(l)}
    /\ entries = files
    /\ root = "/r"
    /\ ignore_files \in SeqsUpTo(NamePatterns, MaxPatterns)
    /\ ignore_paths \in SeqsUpTo(PathPatterns, MaxPatterns)
    /\ ipc = "call"

IgnoreIdle ==
    /\ files = << >>
    /\ entries = << >>
    /\ root = ""
    /\ ignore_files = << >>
    /\ ignore_paths = << >>
    /\ ipc = "idle"

----------------------------------------------------------------------------
(* record_file_stats, lines 82-98, over a small file system that another  *)
(* process deletes files from                                              *)

\* the files the file system may hold
DiskFiles == {"/r/a", "/r/b.pyc", "/r/d/c", "/r/.git/h"}

\* the ignore lists of lines 25-30
default_ignore_files == <<".DS_Store", ".git", "*.pyc">>

default_ignore_paths == << >>

\* os.walk's listing of a directory: the names of its subdirectories
SubDirs(dir) ==
    CASE dir = "/r" -> <<".git", "d">>
      [] OTHER -> << >>

\* os.walk's listing of a directory: the names of the files that exist in it
FilesIn(dir, disk) ==
    LET cand == CASE dir = "/r" -> <<"a", "b.pyc">>
                  [] dir = "/r/d" -> <<"c">>
                  [] dir = "/r/.git" -> <<"h">>
                  [] OTHER -> << >>
    IN  SelectSeq(cand, LAMBDA f : Join(dir, f) \in disk)

\* st_mtime and st_size of a path
MtimeOf(path) == 1

SizeOf(path) == IF path \in DiskFiles THEN Len(path) ELSE 0

\* file_spec, lines 78-80, for an entry that exists
file_spec(f, dir) == FileSpec(f, MtimeOf(Join(dir, f)), SizeOf(Join(dir, f)))

\* os.path.relpath(path, start) for a path at or below start
RelPath(path, start) ==
    IF path = start THEN "."
    ELSE SubSeq(path, Len(start) + 2, Len(path))

\* line 88 takes the next root, line 89, and os.walk starts at it
WalkRoot ==
    /\ wpc = "roots"
    /\ ri < Len(rootdirs)
    /\ ri' = ri + 1
    /\ dircontents' = << >>
    /\ stack' = <<rootdirs[ri + 1]>>
    /\ wpc' = "walk"
    /\ UNCHANGED <<diffvars, ignvars>>
    /\ UNCHANGED <<fs, rootdirs, parentdir, wfiles, wdirs, k, specs, result>>

\* os.walk lists the next directory and yields it, line 90; lines 91-92
\* filter both lists, and os.walk will descend into the directories left
WalkYield ==
    /\ wpc = "walk"
    /\ stack # << >>
    /\ LET dir == Head(stack)
           rf == apply_ignore(FilesIn(dir, fs), dir,
                              default_ignore_files, default_ignore_paths)
           rd == apply_ignore(SubDirs(dir), dir,
                              default_ignore_files, default_ignore_paths)
       IN  /\ parentdir' = dir
           /\ wfiles' = rf.files
           /\ wdirs' = rd.files
           /\ stack' = [n \in 1..Len(rd.files) |-> Join(dir, rd.files[n])]
                       \o Tail(stack)
           /\ wpc' = IF rf.raised \/ rd.raised THEN "raised" ELSE "exists"
    /\ k' = 1
    /\ specs' = << >>
    /\ UNCHANGED <<diffvars, ignvars>>
    /\ UNCHANGED <<fs, rootdirs, ri, dircontents, result>>

\* the condition of the comprehension of line 93 for the k-th file
WalkExists ==
    /\ wpc = "exists"
    /\ k <= Len(wfiles)
    /\ IF Join(parentdir, wfiles[k]) \in fs
       THEN wpc' = "stat" /\ k' = k
       ELSE wpc' = "exists" /\ k' = k + 1
    /\ UNCHANGED <<diffvars, ignvars>>
    /\ UNCHANGED <<fs, rootdirs, ri, stack, parentdir, wfiles, wdirs, specs,
                   dircontents, result>>

\* file_spec for the k-th file, line 93: stat of line 79 raises
\* FileNotFoundError when the file is not there
WalkStat ==
    /\ wpc = "stat"
    /\ IF Join(parentdir, wfiles[k]) \in fs
       THEN /\ specs' = Append(specs, file_spec(wfiles[k], parentdir))
            /\ k' = k + 1
            /\ wpc' = "exists"
       ELSE /\ wpc' = "raised"
            /\ UNCHANGED <<specs, k>>
    /\ UNCHANGED <<diffvars, ignvars>>
    /\ UNCHANGED <<fs, rootdirs, ri, stack, parentdir, wfiles, wdirs,
                   dircontents, result>>

\* lines 94-95
WalkSelf ==
    /\ wpc = "exists"
    /\ k > Len(wfiles)
    /\ specs' = Append(specs, file_spec(".", parentdir))
    /\ dircontents' = Append(dircontents,
                             DirContent(RelPath(parentdir, rootdirs[ri]),
                                        specs'))
    /\ wpc' = "walk"
    /\ UNCHANGED <<diffvars, ignvars>>
    /\ UNCHANGED <<fs, rootdirs, ri, stack, parentdir, wfiles, wdirs, k,
                   result>>

\* os.walk is exhausted: line 96
WalkTree ==
    /\ wpc = "walk"
    /\ stack = << >>
    /\ result' = Append(result, FileTree(rootdirs[ri], dircontents))
    /\ wpc' = "roots"
    /\ UNCHANGED <<diffvars, ignvars>>
    /\ UNCHANGED <<fs, rootdirs, ri, stack, parentdir, wfiles, wdirs, k,
                   specs, dircontents>>

\* line 98
WalkReturn ==
    /\ wpc = "roots"
    /\ ri = Len(rootdirs)
    /\ wpc' = "returned"
    /\ UNCHANGED <<diffvars, ignvars>>
    /\ UNCHANGED <<fs, rootdirs, ri, stack, parentdir, wfiles, wdirs, k,
                   specs, dircontents, result>>

\* another process deletes a file while the walk runs
Delete ==
    /\ wpc \in {"roots", "walk", "exists", "stat"}
    /\ \E f \in fs : fs' = fs \ {f}
    /\ UNCHANGED <<diffvars, ignvars>>
    /\ UNCHANGED <<rootdirs, ri, stack, parentdir, wfiles, wdirs, k, specs,
                   dircontents, result, wpc>>

WalkStart ==
    /\ fs \in SUBSET DiskFiles
    /\ rootdirs \in {<<"/r">>, <<"/r/d", "/r">>}
    /\ ri = 0
    /\ stack = << >>
    /\ parentdir = ""
    /\ wfiles = << >>
    /\ wdirs = << >>
    /\ k = 1
    /\ specs = << >>
    /\ dircontents = << >>
    /\ result = << >>
    /\ wpc = "roots"

WalkIdle ==
    /\ fs = {}
    /\ rootdirs = << >>
    /\ ri = 0
    /\ stack = << >>
    /\ parentdir = ""
    /\ wfiles = << >>
    /\ wdirs = << >>
    /\ k = 1
    /\ specs = << >>
    /\ dircontents = << >>
    /\ result = << >>
    /\ wpc = "idle"

----------------------------------------------------------------------------
(* Specifications *)

\* diff_file_list is called with two lists of trees of the same length: one
\* pair of any trees, or up to MaxTrees pairs of small trees
Init ==
    /\ \/ /\ filetrees_a \in ListsOf(Trees, 1)
          /\ filetrees_b \in ListsOf(Trees, 1)
       \/ \E n \in 0..MaxTrees :
            /\ filetrees_a \in ListsOf(SmallTrees, n)
            /\ filetrees_b \in ListsOf(SmallTrees, n)
    /\ DiffStart
    /\ IgnoreIdle
    /\ WalkIdle

Next == NextPair \/ LoopA \/ LoopB \/ AppendDiff \/ Return

\* diff_file_list is called with lists of any lengths, of trees in which a
\* "." entry may be missing
Spec == Init /\ [][Next]_vars

InitShape ==
    /\ filetrees_a \in UNION {ListsOf(ShapeTrees, n) : n \in 0..MaxTrees}
    /\ filetrees_b \in UNION {ListsOf(ShapeTrees, n) : n \in 0..MaxTrees}
    /\ DiffStart
    /\ IgnoreIdle
    /\ WalkIdle
SpecShape == InitShape /\ [][Next]_vars

\* apply_ignore is called with a list of distinct names
InitIgnore == IgnoreStart /\ DiffIdle /\ WalkIdle

NextIgnore == ApplyIgnore

SpecIgnore == InitIgnore /\ [][NextIgnore]_vars

\* record_file_stats is called while another process deletes files
InitWalk == WalkStart /\ DiffIdle /\ IgnoreIdle

NextWalk ==
    \/ WalkRoot
    \/ WalkYield
    \/ WalkExists
    \/ WalkStat
    \/ WalkSelf
    \/ WalkTree
    \/ WalkReturn
    \/ Delete

SpecWalk == InitWalk /\ [][NextWalk]_vars

----------------------------------------------------------------------------
(* Properties of diff_file_list *)

\* the files of a directory: its entries other than "."
FilesOf(dc) == {dc.filespecs[n] : n \in {m \in 1..Len(dc.filespecs) :
                                            dc.filespecs[m].name # "."}}

NamesOf(dc) == {spec.name : spec \in FilesOf(dc)}

\* the pairs (directory of a, directory of b) of the same relative path
CommonDirs(tree_a, tree_b) ==
    {pair \in (1..Len(tree_a.dircontents)) \X (1..Len(tree_b.dircontents)) :
        tree_a.dircontents[pair[1]].path = tree_b.dircontents[pair[2]].path}

HasDir(tree, path) == FindDir(tree.dircontents, path) # 0

\* the relative path of the directory that holds the directory path
ParentPath(path) ==
    LET slashes == {n \in 1..Len(path) : SubSeq(path, n, n) = "/"}
    IN  IF slashes = {} THEN "." ELSE SubSeq(path, 1, MaxOf(slashes) - 1)

\* every file of a directory of side x that side y has the directory of but
\* not the file is in only, under join(path, name), with its FileSpec
OnlyFilesIn(only, tree_x, tree_y) ==
    \A pair \in CommonDirs(tree_x, tree_y) :
        LET dx == tree_x.dircontents[pair[1]]
            dy == tree_y.dircontents[pair[2]]
        IN  \A spec \in FilesOf(dx) :
                spec.name \notin NamesOf(dy) =>
                    /\ Join(dx.path, spec.name) \in DOMAIN only
                    /\ only[Join(dx.path, spec.name)] = spec

\* C1: when diff_file_list has returned, for every pair of trees and every
\* directory that both trees have, each file of a's directory that b's
\* directory has no file of the same name for is a key of only_in_a mapped
\* to a's FileSpec, and likewise for b and only_in_b.
C1_OnlyFilesReported ==
    pc = "returned" =>
        \A n \in 1..Len(filediffs) :
            /\ OnlyFilesIn(filediffs[n].only_in_a,
                           filetrees_a[n], filetrees_b[n])
            /\ OnlyFilesIn(filediffs[n].only_in_b,
                           filetrees_b[n], filetrees_a[n])

\* C2: when diff_file_list has returned, for every directory that both
\* trees have, every file name of both directories with two different
\* sizes is a key of changed mapped to the pair (a's FileSpec, b's
\* FileSpec), whatever the mtimes.
C2_ChangedFilesReported ==
    pc = "returned" =>
        \A n \in 1..Len(filediffs) :
            \A pair \in CommonDirs(filetrees_a[n], filetrees_b[n]) :
                LET da == filetrees_a[n].dircontents[pair[1]]
                    db == filetrees_b[n].dircontents[pair[2]]
                IN  \A fa \in FilesOf(da), fb \in FilesOf(db) :
                        (fa.name = fb.name /\ fa.size # fb.size) =>
                            /\ Join(da.path, fa.name)
                                  \in DOMAIN filediffs[n].changed
                            /\ filediffs[n].changed[Join(da.path, fa.name)]
                                  = <<fa, fb>>

\* the entry key |-> pair of changed is a file that both trees have in the
\* same directory, with its two FileSpecs, of different sizes
IsChangedFile(key, pair, tree_a, tree_b) ==
    \E cd \in CommonDirs(tree_a, tree_b) :
        LET da == tree_a.dircontents[cd[1]]
            db == tree_b.dircontents[cd[2]]
        IN  \E fa \in FilesOf(da), fb \in FilesOf(db) :
                /\ fa.name = fb.name
                /\ key = Join(da.path, fa.name)
                /\ pair = <<fa, fb>>
                /\ fa.size # fb.size

\* C3: every entry of changed, in every FileDiff built, is a file present on
\* both sides with two different sizes; a file of equal sizes is never in
\* changed, whatever its mtimes.
C3_ChangedOnlyBySize ==
    \A n \in 1..Len(filediffs) :
        \A key \in DOMAIN filediffs[n].changed :
            IsChangedFile(key, filediffs[n].changed[key],
                          filetrees_a[n], filetrees_b[n])

\* a pair of trees was diffed in which one file differs in size and is in
\* changed, and another differs in mtime alone
C3_Witness ==
    /\ pc = "returned"
    /\ \E n \in 1..Len(filediffs) :
          /\ DOMAIN filediffs[n].changed # {}
          /\ \E cd \in CommonDirs(filetrees_a[n], filetrees_b[n]) :
                \E fa \in FilesOf(filetrees_a[n].dircontents[cd[1]]),
                   fb \in FilesOf(filetrees_b[n].dircontents[cd[2]]) :
                    /\ fa.name = fb.name
                    /\ fa.size = fb.size
                    /\ fa.mtime # fb.mtime

\* the directory marker of every directory of side x that side y has not,
\* while both have its parent, is in only with x's "." entry, and nothing
\* else below the directory is
MarkersIn(only, tree_x, tree_y) ==
    \A n \in 1..Len(tree_x.dircontents) :
        LET dx == tree_x.dircontents[n]
        IN  (/\ dx.path # "."
             /\ ~HasDir(tree_y, dx.path)
             /\ HasDir(tree_x, ParentPath(dx.path))
             /\ HasDir(tree_y, ParentPath(dx.path))) =>
                /\ (dx.path \o "/") \in DOMAIN only
                /\ only[dx.path \o "/"]
                      = dx.filespecs[FindFile(dx.filespecs, ".")]
                /\ \A key \in DOMAIN only :
                      StartsWith(key, dx.path \o "/") => key = dx.path \o "/"

\* C4: when diff_file_list has returned, every directory p of a that b has
\* not, while both have p's parent, has the key p + "/" in only_in_a mapped
\* to its "." entry, and only_in_a has no other key that begins with
\* p + "/"; likewise for b and only_in_b.
C4_DirectoryShortCircuit ==
    pc = "returned" =>
        \A n \in 1..Len(filediffs) :
            /\ MarkersIn(filediffs[n].only_in_a,
                         filetrees_a[n], filetrees_b[n])
            /\ MarkersIn(filediffs[n].only_in_b,
                         filetrees_b[n], filetrees_a[n])

\* C5: when diff_file_list(X, Y) has returned, diff_file_list(Y, X) gives
\* for every index only_in_a and only_in_b exchanged and the same keys of
\* changed with every pair reversed.
C5_Symmetry ==
    pc = "returned" =>
        LET swapped == DiffFileList(filetrees_b, filetrees_a)
        IN  /\ ~swapped.raised
            /\ Len(swapped.filediffs) = Len(filediffs)
            /\ \A n \in 1..Len(filediffs) :
                  LET d == filediffs[n]
                      e == swapped.filediffs[n]
                  IN  /\ d.only_in_a = e.only_in_b
                      /\ d.only_in_b = e.only_in_a
                      /\ DOMAIN d.changed = DOMAIN e.changed
                      /\ \A key \in DOMAIN d.changed :
                            e.changed[key]
                               = <<d.changed[key][2], d.changed[key][1]>>

\* C6: when diff_file_list(T, T) has returned, every FileDiff has empty
\* only_in_a, only_in_b and changed.
C6_SelfDiffEmpty ==
    (pc = "returned" /\ filetrees_a = filetrees_b) =>
        /\ Len(filediffs) = Len(filetrees_a)
        /\ \A n \in 1..Len(filediffs) :
              /\ DOMAIN filediffs[n].only_in_a = {}
              /\ DOMAIN filediffs[n].only_in_b = {}
              /\ DOMAIN filediffs[n].changed = {}

\* a tree of three directories, each with a file, was diffed against itself
C6_Witness ==
    /\ pc = "returned"
    /\ filetrees_a = filetrees_b
    /\ \E n \in 1..Len(filediffs) :
          /\ Len(filetrees_a[n].dircontents) = Len(Chain)
          /\ \A m \in 1..Len(Chain) :
                FilesOf(filetrees_a[n].dircontents[m]) # {}

\* C8: diff_file_list called with two lists of different lengths does not
\* return.
C8_LengthMismatchFails ==
    Len(filetrees_a) # Len(filetrees_b) => pc # "returned"

\* some directory of some tree of the list has no "." entry
MissingSelf(trees) ==
    \E n \in 1..Len(trees) :
        \E m \in 1..Len(trees[n].dircontents) :
            FindFile(trees[n].dircontents[m].filespecs, ".") = 0

\* C10: diff_file_list called with two lists of the same length, in which
\* some directory of some tree has no "." entry, does not return.
C10_MissingSelfFails ==
    (/\ Len(filetrees_a) = Len(filetrees_b)
     /\ MissingSelf(filetrees_a) \/ MissingSelf(filetrees_b)) =>
        pc # "returned"

----------------------------------------------------------------------------
(* Properties of apply_ignore *)

\* the entry matches no name pattern and no path pattern
Kept(f, dir, ign_files, ign_paths) ==
    /\ \A n \in 1..Len(ign_files) : ~FnMatch(f, ign_files[n])
    /\ \A n \in 1..Len(ign_paths) : ~FnMatch(Join(dir, f), ign_paths[n])

\* C7: a call of apply_ignore with a list of distinct names ends without
\* raising, and the list then holds exactly the entries that match no name
\* pattern and no path pattern, in their original order.
C7_IgnoreFilter ==
    ipc \notin {"call", "idle"} =>
        /\ ipc = "returned"
        /\ files = SelectSeq(entries,
                LAMBDA f : Kept(f, root, ignore_files, ignore_paths))

----------------------------------------------------------------------------
(* Properties of record_file_stats *)

\* C9: the walk never fails, whenever another process deletes a file.
C9_VanishedFileIsBenign == wpc # "raised"

====
